---- MODULE Spec2Model ----
(***************************************************************************)
(* Model of the registry manager of the bazel_registry repository:         *)
(* Version ordering (version.py), module reading and file generation       *)
(* (bazel_wrapper.py), the GitHub wrapper (github_wrapper.py), the logger  *)
(* (gh_logging.py) and the update pipeline (main.py).                      *)
(*                                                                         *)
(* A Python str is a sequence of one-character strings, so that parsing    *)
(* and lexical comparison are computed character by character.             *)
(***************************************************************************)
EXTENDS Integers, Sequences, FiniteSets, TLC

(***************************************************************************)
(* Characters and Python str comparison                                    *)
(***************************************************************************)

\* The characters used by the model, in code point order.
Alphabet ==
    << "+", "-", ".", "0", "1", "2", "3", "4", "5", "6", "7", "8", "9",
       "A", "B", "C", "a", "b", "e", "f", "h", "l", "o", "p", "t", "v" >>

Chars == { Alphabet[i] : i \in 1..Len(Alphabet) }

\* ord(c), up to an order-preserving renumbering of the code points.
Ord == [ c \in Chars |-> CHOOSE i \in 1..Len(Alphabet) : Alphabet[i] = c ]

Digits == { "0", "1", "2", "3", "4", "5", "6", "7", "8", "9" }

Letters == { "A", "B", "C", "a", "b", "e", "f", "h", "l", "o", "p", "t", "v" }

DigitValue(c) == Ord[c] - Ord["0"]

\* Python str.__lt__: code point by code point, a proper prefix is smaller.
RECURSIVE StrLt(_, _)
StrLt(s, t) ==
    IF t = <<>> THEN FALSE
    ELSE IF s = <<>> THEN TRUE
    ELSE IF Head(s) = Head(t) THEN StrLt(Tail(s), Tail(t))
    ELSE Ord[Head(s)] < Ord[Head(t)]

\* Index of the first occurrence of character c in s, 0 when there is none.
IndexOf(s, c) ==
    IF \E i \in 1..Len(s) : s[i] = c
    THEN CHOOSE i \in 1..Len(s) : s[i] = c /\ \A j \in 1..(i - 1) : s[j] # c
    ELSE 0

\* str.split(sep) for a one-character separator.
RECURSIVE Split(_, _)
Split(s, sep) ==
    LET i == IndexOf(s, sep)
    IN  IF i = 0 THEN << s >>
        ELSE << SubSeq(s, 1, i - 1) >> \o Split(SubSeq(s, i + 1, Len(s)), sep)

\* str.lstrip("v"): drops every leading "v".
RECURSIVE LStripV(_)
LStripV(s) ==
    IF s # <<>> /\ Head(s) = "v" THEN LStripV(Tail(s)) ELSE s

\* int(text) of a string of digits.
RECURSIVE ToInt(_)
ToInt(s) ==
    IF s = <<>> THEN 0
    ELSE 10 * ToInt(SubSeq(s, 1, Len(s) - 1)) + DigitValue(s[Len(s)])

AllDigits(s) == s # <<>> /\ \A i \in 1..Len(s) : s[i] \in Digits

(***************************************************************************)
(* semver.Version, as used by version.py                                   *)
(***************************************************************************)

\* 0|[1-9]\d*
IsNumericId(s) == AllDigits(s) /\ (Len(s) = 1 \/ s[1] # "0")

\* 0|[1-9]\d*|\d*[a-zA-Z-][0-9a-zA-Z-]*
IsPrereleaseId(s) ==
    /\ s # <<>>
    /\ \A i \in 1..Len(s) : s[i] \in Digits \cup Letters \cup {"-"}
    /\ AllDigits(s) => IsNumericId(s)

\* [0-9a-zA-Z-]+
IsBuildId(s) ==
    /\ s # <<>>
    /\ \A i \in 1..Len(s) : s[i] \in Digits \cup Letters \cup {"-"}

\* The value of Version._semver when parsing failed (None).
NoSemver ==
    [ ok |-> FALSE, major |-> 0, minor |-> 0, patch |-> 0,
      prerelease |-> <<>>, build |-> <<>> ]

\* The groups of the regular expression of semver.Version once the string
\* is cut at its first "+" and the rest at its first "-": the version when
\* the three numbers, the prerelease and the build identifiers are well
\* formed, NoSemver otherwise.
MatchGroups(nums, hasPre, pre, preIds, hasBuild, build, bldIds) ==
    IF /\ Len(nums) = 3
       /\ \A i \in 1..Len(nums) : IsNumericId(nums[i])
       /\ hasPre => \A i \in 1..Len(preIds) : IsPrereleaseId(preIds[i])
       /\ hasBuild => \A i \in 1..Len(bldIds) : IsBuildId(bldIds[i])
    THEN [ ok |-> TRUE, major |-> ToInt(nums[1]), minor |-> ToInt(nums[2]),
           patch |-> ToInt(nums[3]), prerelease |-> pre, build |-> build ]
    ELSE NoSemver

\* The core and the prerelease, cut at the first "-" (at index dash).
MatchCore(core, hasPre, pre, hasBuild, build) ==
    MatchGroups(Split(core, "."), hasPre, pre, Split(pre, "."),
                hasBuild, build, Split(build, "."))

MatchPrerelease(noBuild, dash, hasBuild, build) ==
    MatchCore(IF dash = 0 THEN noBuild ELSE SubSeq(noBuild, 1, dash - 1),
              dash # 0,
              IF dash = 0 THEN <<>>
              ELSE SubSeq(noBuild, dash + 1, Len(noBuild)),
              hasBuild, build)

\* The build part, cut at the first "+" (at index plus).
MatchBuild(s, plus) ==
    MatchPrerelease(IF plus = 0 THEN s ELSE SubSeq(s, 1, plus - 1),
                    IndexOf(IF plus = 0 THEN s ELSE SubSeq(s, 1, plus - 1), "-"),
                    plus # 0,
                    IF plus = 0 THEN <<>> ELSE SubSeq(s, plus + 1, Len(s)))

\* semver.Version.parse(s) inside the try of Version.__init__: the parsed
\* version, or NoSemver where parse raises ValueError.  An absent prerelease
\* or build (None) is the empty string: the library only tests them with
\* "not" and "or", which do not tell None from "".
SemverParse(s) == MatchBuild(s, IndexOf(s, "+"))

\* _cmp(a, b) on integers.
CmpInt(a, b) == IF a < b THEN -1 ELSE IF a > b THEN 1 ELSE 0

\* _cmp(a, b) on strings.
CmpStr(a, b) == IF StrLt(a, b) THEN -1 ELSE IF StrLt(b, a) THEN 1 ELSE 0

\* cmp_prerelease_tag(a, b) after convert(): a string of digits is an int,
\* an int sorts before any other string.
CmpPrereleaseTag(a, b) ==
    IF AllDigits(a) /\ AllDigits(b) THEN CmpInt(ToInt(a), ToInt(b))
    ELSE IF AllDigits(a) THEN -1
    ELSE IF AllDigits(b) THEN 1
    ELSE CmpStr(a, b)

\* The zip loop of _nat_cmp over the split identifiers.
RECURSIVE NatCmpParts(_, _)
FirstDifference(c, pa, pb) ==
    IF c # 0 THEN c ELSE NatCmpParts(Tail(pa), Tail(pb))

NatCmpParts(pa, pb) ==
    IF pa = <<>> \/ pb = <<>> THEN 0
    ELSE FirstDifference(CmpPrereleaseTag(Head(pa), Head(pb)), pa, pb)

\* The else of the loop of _nat_cmp: the lengths of the whole strings.
NatCmpLengths(c, a, b) == IF c # 0 THEN c ELSE CmpInt(Len(a), Len(b))

\* _nat_cmp(a, b): identifier by identifier, then by the length of the
\* whole strings.
NatCmp(a, b) == NatCmpLengths(NatCmpParts(Split(a, "."), Split(b, ".")), a, b)

\* A comparison that stops at the core numbers and takes a prerelease for
\* its release.
SemverCompare_CoreOnly(x, y) ==
    IF x.major # y.major THEN CmpInt(x.major, y.major)
    ELSE IF x.minor # y.minor THEN CmpInt(x.minor, y.minor)
    ELSE CmpInt(x.patch, y.patch)

\* The end of semver.Version.compare, given rccmp = _nat_cmp(rc1, rc2).
ComparePrerelease(rccmp, rc1, rc2) ==
    IF rccmp = 0 THEN 0
    ELSE IF rc1 = <<>> THEN 1
    ELSE IF rc2 = <<>> THEN -1
    ELSE rccmp

\* semver.Version.compare(other): core numbers, then prerelease; the build
\* part takes no part in the comparison.
SemverCompare(x, y) ==
    IF x.major # y.major THEN CmpInt(x.major, y.major)
    ELSE IF x.minor # y.minor THEN CmpInt(x.minor, y.minor)
    ELSE IF x.patch # y.patch THEN CmpInt(x.patch, y.patch)
    ELSE ComparePrerelease(NatCmp(x.prerelease, y.prerelease),
                           x.prerelease, y.prerelease)

(***************************************************************************)
(* version.py: a Version is its raw string; semver is derived from it      *)
(***************************************************************************)

\* Version.semver
semver(v) == SemverParse(v)

\* A comparison of the raw strings alone.
LtWith_RawOnly(a, sa, b, sb) == StrLt(a, b)

\* The body of Version.__lt__, given the two _semver.
LtWith(a, sa, b, sb) ==
    IF sa.ok /\ sb.ok THEN SemverCompare(sa, sb) < 0 ELSE StrLt(a, b)

\* Version.__lt__
VersionLt(a, b) == LtWith(a, semver(a), b, semver(b))

\* An equality under which only semantic versions are ever equal.
VersionEq_SemverOnly(a, b) == semver(a).ok /\ semver(b).ok /\ a = b

\* Version.__eq__: the raw strings.
VersionEq(a, b) == a = b

(***************************************************************************)
(* list.sort / sorted() for lists shorter than 64 elements: one run is     *)
(* counted, the rest is inserted by binary insertion; reverse=True         *)
(* reverses the list before and after sorting.  The only comparison used   *)
(* is Version.__lt__.                                                      *)
(***************************************************************************)

Reverse(l) == [ i \in 1..Len(l) |-> l[Len(l) + 1 - i] ]

\* count_run: length of the initial run and whether it is strictly
\* descending, given lt[i] = (l[i] < l[i - 1]).
CountRunWith(l, lt) ==
    IF Len(l) < 2 THEN [ n |-> Len(l), descending |-> FALSE ]
    ELSE [ n |-> CHOOSE k \in 2..Len(l) :
                    /\ \A i \in 3..k : lt[i] = lt[2]
                    /\ k < Len(l) => lt[k + 1] # lt[2],
           descending |-> lt[2] ]

CountRun(l) ==
    CountRunWith(l, [ i \in 2..Len(l) |-> VersionLt(l[i], l[i - 1]) ])

\* The binary search of binarysort: the insertion point of pivot in the
\* sorted prefix s, between offsets lo and hi (0-based, hi exclusive).
RECURSIVE BinarySearch(_, _, _, _)
BinarySearch(s, pivot, lo, hi) ==
    IF lo >= hi THEN lo
    ELSE IF VersionLt(pivot, s[lo + ((hi - lo) \div 2) + 1])
    THEN BinarySearch(s, pivot, lo, lo + ((hi - lo) \div 2))
    ELSE BinarySearch(s, pivot, lo + ((hi - lo) \div 2) + 1, hi)

\* The prefix with pivot inserted at offset at.
InsertAt(prefix, pivot, at) ==
    SubSeq(prefix, 1, at) \o << pivot >> \o SubSeq(prefix, at + 1, Len(prefix))

\* binarysort: inserts rest, element by element, into the sorted prefix.
RECURSIVE BinarySort(_, _)
BinarySort(prefix, rest) ==
    IF rest = <<>> THEN prefix
    ELSE BinarySort(InsertAt(prefix, Head(rest),
                             BinarySearch(prefix, Head(rest), 0, Len(prefix))),
                    Tail(rest))

\* The sort once the initial run is counted.
SortRun(l, run) ==
    BinarySort(IF run.descending THEN Reverse(SubSeq(l, 1, run.n))
               ELSE SubSeq(l, 1, run.n),
               SubSeq(l, run.n + 1, Len(l)))

\* list.sort() ascending.
ListSort(l) == IF Len(l) < 2 THEN l ELSE SortRun(l, CountRun(l))

\* sorted(versions, reverse=True)
SortedReverse(l) == Reverse(ListSort(Reverse(l)))

\* _parse_versions for a list of strings: Version(v) for each, sorted in
\* descending order.
_parse_versions(raw_versions) == SortedReverse(raw_versions)

\* No element is smaller than a later one.
IsSortedDescending(l) ==
    \A i \in 1..Len(l) : \A j \in (i + 1)..Len(l) : ~VersionLt(l[i], l[j])

(***************************************************************************)
(* Version strings used by the model                                       *)
(***************************************************************************)

v_1_0_0 == << "1", ".", "0", ".", "0" >>
v_1_0_0_alpha == << "1", ".", "0", ".", "0", "-", "a", "l", "p", "h", "a" >>
v_1_0_1 == << "1", ".", "0", ".", "1" >>
v_1_1_0 == << "1", ".", "1", ".", "0" >>
v_1_4_9 == << "1", ".", "4", ".", "9" >>
v_1_5_0 == << "1", ".", "5", ".", "0" >>
v_1_5_4 == << "1", ".", "5", ".", "4" >>
v_1_5_5 == << "1", ".", "5", ".", "5" >>
v_1_5_5_alpha == << "1", ".", "5", ".", "5", "-", "a", "l", "p", "h", "a" >>
v_1_5_6 == << "1", ".", "5", ".", "6" >>
v_1_5_6_alpha == << "1", ".", "5", ".", "6", "-", "a", "l", "p", "h", "a" >>
v_1_6_0 == << "1", ".", "6", ".", "0" >>
v_1_9 == << "1", ".", "9" >>
v_1_9_0 == << "1", ".", "9", ".", "0" >>
v_1_10_0 == << "1", ".", "1", "0", ".", "0" >>
v_1_0_0_build_a == << "1", ".", "0", ".", "0", "+", "a" >>
v_1_0_0_build_b == << "1", ".", "0", ".", "0", "+", "b" >>
v_01_0_0 == << "0", "1", ".", "0", ".", "0" >>
v_2_0_0 == << "2", ".", "0", ".", "0" >>
v_2_0_1 == << "2", ".", "0", ".", "1" >>
v_2_0_1_alpha == << "2", ".", "0", ".", "1", "-", "a", "l", "p", "h", "a" >>
v_2_0_1_alpha_4 ==
    << "2", ".", "0", ".", "1", "-", "a", "l", "p", "h", "a", ".", "4" >>
v_2_0_1_alpha_5 ==
    << "2", ".", "0", ".", "1", "-", "a", "l", "p", "h", "a", ".", "5" >>
v_2_0_1_alpha_6 ==
    << "2", ".", "0", ".", "1", "-", "a", "l", "p", "h", "a", ".", "6" >>
v_2_0_1_beta == << "2", ".", "0", ".", "1", "-", "b", "e", "t", "a" >>
v_2_0_2 == << "2", ".", "0", ".", "2" >>
v_2_1_0 == << "2", ".", "1", ".", "0" >>
v_3_0_0 == << "3", ".", "0", ".", "0" >>
v_foo == << "f", "o", "o" >>
v_ABC == << "A", "B", "C" >>

(***************************************************************************)
(* The registry on disk, the upstream and the command line                 *)
(***************************************************************************)

\* The directory entries of modules/ and the characters of their names.
ModuleNames == { "score_demo", "extra" }

NameChars ==
    [ score_demo |-> << "s", "c", "o", "r", "e", "_", "d", "e", "m", "o" >>,
      extra      |-> << "e", "x", "t", "r", "a" >> ]

\* str.startswith(prefix)
StartsWith(s, prefix) ==
    Len(s) >= Len(prefix) /\ SubSeq(s, 1, Len(prefix)) = prefix

ScorePrefix == << "s", "c", "o", "r", "e", "_" >>

\* A repository string "scheme:org/repo" is the pair of its scheme and of
\* the rest after the colon.
RepoString(scheme, rest) == [ scheme |-> scheme, rest |-> rest ]

\* The source repository of each module directory.
RepoOf == [ score_demo |-> "org/demo", extra |-> "org/extra" ]

Repos == { RepoOf[m] : m \in ModuleNames }

\* What a module directory entry can be: not a directory, a directory
\* without metadata.json, a metadata.json that json.load rejects, or a
\* metadata.json with its fields.
Metadata(repository, versions, periodic, obsolete) ==
    [ kind |-> "json", repository |-> repository, versions |-> versions,
      periodic_pull |-> periodic, obsolete |-> obsolete ]

BrokenEntry(kind) ==
    [ kind |-> kind, repository |-> <<>>, versions |-> <<>>,
      periodic_pull |-> FALSE, obsolete |-> FALSE ]

\* The version lists a metadata.json of the first module starts with.
DemoVersionLists ==
    { <<>>,
      << v_1_5_5 >>,
      << v_2_0_0, v_1_0_0 >>,
      << v_1_5_5, v_2_0_1_alpha_5 >> }

\* The version lists a metadata.json of the second module starts with.
ExtraVersionLists == { << v_1_0_0 >> }

\* The "repository" fields that try_parse_metadata_json rejects: no
\* element, two elements, one element that is not a github: string.
BadRepositories(m) ==
    { <<>>,
      << RepoString("github", RepoOf[m]), RepoString("github", RepoOf[m]) >>,
      << RepoString("gitlab", RepoOf[m]) >> }

\* The entries of one module directory: every version list with and
\* without periodic-pull, one obsolete module, the rejected repository
\* fields and the broken entries.
DiskEntries(m, lists, obsoleteLists, badRepositories, brokenKinds) ==
    { Metadata(<< RepoString("github", RepoOf[m]) >>, l, p, FALSE) :
        l \in lists, p \in BOOLEAN }
    \cup { Metadata(<< RepoString("github", RepoOf[m]) >>, l, TRUE, TRUE) :
             l \in obsoleteLists }
    \cup { Metadata(r, <<>>, FALSE, FALSE) : r \in badRepositories }
    \cup { BrokenEntry(k) : k \in brokenKinds }

BrokenKinds == { "notdir", "nometadata", "unreadable" }

\* A release of the hosting API.
Release(tag, published_at, prerelease) ==
    [ tag_name |-> tag, published_at |-> published_at,
      prerelease |-> prerelease ]

V(s) == << "v" >> \o s

\* The release lists of the upstream of the first module, in API order.
DemoReleaseLists ==
    { <<>>,
      << Release(V(v_1_5_5), 1, FALSE) >>,
      << Release(V(v_1_5_4), 2, FALSE), Release(V(v_1_5_5), 1, FALSE) >>,
      << Release(V(v_1_0_0), 1, FALSE), Release(V(v_2_0_0), 2, FALSE) >>,
      << Release(V(v_1_0_0), 3, FALSE), Release(V(v_2_0_0), 2, FALSE) >>,
      << Release(V(v_1_5_5_alpha), 1, TRUE) >>,
      << Release(V(v_2_0_1_alpha_4), 1, TRUE) >>,
      << Release(V(v_1_5_6), 1, TRUE) >>,
      << Release(v_ABC, 1, FALSE) >> }

\* The release lists of the upstream of the second module.
ExtraReleaseLists ==
    { << Release(V(v_1_0_0), 1, FALSE) >>,
      << Release(V(v_2_0_0), 2, FALSE), Release(V(v_1_0_0), 1, FALSE) >> }

\* The text of a MODULE.bazel: the sequence of its attributes; the empty
\* sequence is the empty file.
Attr(name, value) == [ name |-> name, value |-> value ]

DeclarationTexts ==
    { <<>>,
      << Attr("version", v_2_0_0), Attr("compatibility_level", 2) >> }

\* The outcomes of the two calls of the hosting API.
\*   releases: the list, a github.GithubException, or another exception
\*   contents: the file, a GithubException with status 404 or with another
\*             status, another exception, a directory listing, or content
\*             that does not decode as UTF-8
ListFailures == { "GithubException", "ConnectionError" }

ContentFailures ==
    { "GithubException404", "GithubException500", "ConnectionError",
      "directory", "undecodable" }

UpstreamStates(lists, failures, contentFailures, texts) ==
    { [ releases |-> f, list |-> <<>>, content |-> "none", text |-> <<>> ] :
        f \in failures }
    \cup { [ releases |-> "ok", list |-> l, content |-> "none",
             text |-> <<>> ] : l \in lists \cap { <<>> } }
    \cup { [ releases |-> "ok", list |-> l, content |-> c, text |-> <<>> ] :
             l \in lists \ { <<>> }, c \in contentFailures }
    \cup { [ releases |-> "ok", list |-> l, content |-> "ok", text |-> t ] :
             l \in lists \ { <<>> }, t \in texts }

\* The command lines: no module named, or up to MaxNamed names.
MaxNamed == 2

NamedModules ==
    UNION { [ 1..n -> ModuleNames ] : n \in 0..MaxNamed }

(***************************************************************************)
(* The state of one run                                                    *)
(***************************************************************************)
VARIABLES
    disk,             \* modules/<name>: the entry and its metadata.json
    files,            \* modules/<name>/<version>/: the files written
    upstream,         \* what the hosting API answers for each repository
    argv_modules,     \* args.modules
    pc,               \* "start", "plan", "generate", "finish", "exited"
    modules,          \* the list read_modules returned
    plan_idx,         \* the next module of the loop of plan_module_updates
    updated_modules,  \* the plan: the list of ModuleUpdateInfo
    task_idx,         \* the next task of the loop of main
    warnings,         \* Logger.warnings of each of the three loggers
    release_cache,    \* GithubWrapper._release_cache
    module_file_cache,\* GithubWrapper._module_file_cache
    api_calls,        \* the calls made to the hosting API
    exit_code,        \* the exit status of the process, -1 while running
    error             \* the exception or fatal error that ended the run

pipeline_vars ==
    << disk, files, upstream, argv_modules, pc, modules, plan_idx,
       updated_modules, task_idx, warnings, release_cache, module_file_cache,
       api_calls, exit_code, error >>

\* The operands and the results of the comparisons of three Versions, and
\* the module, the candidate and the verdict of one policy decision.
VARIABLES
    cmp_a, cmp_b, cmp_c, \* three Versions
    cmp,                 \* the results of comparing them, once compared
    policy_module,       \* the module a candidate is checked against
    policy_candidate,    \* the candidate Version
    policy_verdict       \* "none", then "accepted" or "rejected"

version_vars == << cmp_a, cmp_b, cmp_c, cmp >>

policy_vars == << policy_module, policy_candidate, policy_verdict >>

\* main is run again on the registry the previous run left.
VARIABLES
    run,                 \* the number of the current run of main
    previous             \* how the previous run ended

rerun_vars == << run, previous >>

vars == << pipeline_vars, version_vars, policy_vars, rerun_vars >>

\* No run came before.
NoPrevious == [ exit_code |-> -1, error |-> [ exc |-> "none", in |-> "none" ] ]

FirstRun == run = 1 /\ previous = NoPrevious

NoError == [ exc |-> "none", in |-> "none" ]

NoWarnings == [ main |-> <<>>, bazel_wrapper |-> <<>>, github_wrapper |-> <<>> ]

\* Logger.warning of the logger of one source file.
LogWarning(w, logger, msg) == [ w EXCEPT ![logger] = Append(@, msg) ]

AllWarnings(w) == w.main \o w.bazel_wrapper \o w.github_wrapper

(***************************************************************************)
(* bazel_wrapper.py: reading the modules                                   *)
(***************************************************************************)

BazelModuleInfo(name, org_and_repo, versions, periodic_pull, obsolete) ==
    [ name |-> name, org_and_repo |-> org_and_repo, versions |-> versions,
      periodic_pull |-> periodic_pull, obsolete |-> obsolete ]

\* The result of try_parse_metadata_json is None.
NoModule == [ found |-> FALSE, info |-> BazelModuleInfo("", "", <<>>, FALSE, FALSE) ]

\* A parse that takes any single repository string and warns of nothing.
try_parse_metadata_json_AnyScheme(name, d) ==
    IF d.kind = "json" /\ Len(d.repository) = 1
    THEN [ m |-> [ found |-> TRUE,
                   info |-> BazelModuleInfo(name, d.repository[1].rest,
                                _parse_versions(d.versions),
                                d.periodic_pull, d.obsolete) ],
           warns |-> <<>> ]
    ELSE [ m |-> NoModule, warns |-> <<>> ]

\* try_parse_metadata_json(modules/<name>/metadata.json) on the entry d:
\* the module, or None, and the warnings logged on the way.
try_parse_metadata_json(name, d) ==
    LET named ==
            IF StartsWith(NameChars[name], ScorePrefix) THEN <<>>
            ELSE << [ kind |-> "not prefixed", module |-> name ] >>
    IN  IF d.kind = "notdir"
        THEN [ m |-> NoModule, warns |-> <<>> ]
        ELSE IF d.kind = "nometadata"
        THEN [ m |-> NoModule,
               warns |-> << [ kind |-> "does not exist", module |-> name ] >> ]
        ELSE IF d.kind = "unreadable"
        THEN [ m |-> NoModule,
               warns |-> named \o
                   << [ kind |-> "could not be parsed", module |-> name ] >> ]
        ELSE IF Len(d.repository) # 1
        THEN [ m |-> NoModule,
               warns |-> named \o
                   << [ kind |-> "invalid repository", module |-> name ] >> ]
        ELSE IF d.repository[1].scheme # "github"
        THEN [ m |-> NoModule,
               warns |-> named \o
                   << [ kind |-> "non-GitHub repository", module |-> name ] >> ]
        ELSE [ m |-> [ found |-> TRUE,
                       info |-> BazelModuleInfo(name, d.repository[1].rest,
                                    _parse_versions(d.versions),
                                    d.periodic_pull, d.obsolete) ],
               warns |-> named ]

\* The loops of read_modules over the names: the modules appended, the
\* warnings logged, and whether log.fatal ended the loop (only when the
\* names come from the command line).  ReadStep is one iteration, given
\* the result r of try_parse_metadata_json.
RECURSIVE ReadLoop(_, _, _, _, _)
ReadStep(names, d, explicit, acc, warns, r) ==
    IF r.m.found
    THEN ReadLoop(Tail(names), d, explicit,
                  IF r.m.info.obsolete THEN acc ELSE Append(acc, r.m.info),
                  warns \o r.warns)
    ELSE IF explicit
    THEN [ modules |-> acc, warns |-> warns \o r.warns, fatal |-> TRUE ]
    ELSE ReadLoop(Tail(names), d, explicit, acc, warns \o r.warns)

ReadLoop(names, d, explicit, acc, warns) ==
    IF names = <<>> THEN [ modules |-> acc, warns |-> warns, fatal |-> FALSE ]
    ELSE ReadStep(names, d, explicit, acc, warns,
                  try_parse_metadata_json(Head(names), d[Head(names)]))

\* The orders in which Path("modules").iterdir() can list the entries.
IterdirOrders ==
    { o \in [ 1..Cardinality(ModuleNames) -> ModuleNames ] :
        \A i, j \in DOMAIN o : i # j => o[i] # o[j] }

\* main after read_modules returned r, or ended the process by log.fatal.
AfterRead(r) ==
    /\ warnings' = [ warnings EXCEPT !.bazel_wrapper = @ \o r.warns ]
    /\ IF r.fatal
       THEN /\ pc' = "exited"
            /\ exit_code' = 1
            /\ error' = [ exc |-> "SystemExit", in |-> "read_modules" ]
            /\ UNCHANGED modules
       ELSE /\ pc' = "plan"
            /\ modules' = r.modules
            /\ UNCHANGED << exit_code, error >>

\* main: parse_args, read_modules(p.modules) and the construction of the
\* GithubWrapper.
ReadModules ==
    /\ pc = "start"
    /\ \E order \in IF argv_modules # <<>> THEN { argv_modules }
                    ELSE IterdirOrders :
         AfterRead(ReadLoop(order, disk, argv_modules # <<>>, <<>>, <<>>))
    /\ plan_idx' = 1
    /\ UNCHANGED << disk, files, upstream, argv_modules, updated_modules,
                    task_idx, release_cache, module_file_cache, api_calls >>

(***************************************************************************)
(* bazel_wrapper.py: parsing a MODULE.bazel                                *)
(***************************************************************************)

\* An optional integer and an optional Version (None when absent).
NoInt == [ some |-> FALSE, val |-> 0 ]

SomeInt(n) == [ some |-> TRUE, val |-> n ]

NoVersion == [ some |-> FALSE, val |-> <<>> ]

SomeVersion(v) == [ some |-> TRUE, val |-> v ]

\* re.search for one attribute: the index of its first occurrence, or 0.
FirstAttr(content, name) ==
    IF \E i \in 1..Len(content) : content[i].name = name
    THEN CHOOSE i \in 1..Len(content) :
            /\ content[i].name = name
            /\ \A j \in 1..(i - 1) : content[j].name # name
    ELSE 0

\* parse_MODULE_file_content
parse_MODULE_file_content(content) ==
    LET cl  == FirstAttr(content, "compatibility_level")
        ver == FirstAttr(content, "version")
    IN  [ content    |-> content,
          comp_level |-> IF cl = 0 THEN NoInt ELSE SomeInt(content[cl].value),
          version    |-> IF ver = 0 THEN NoVersion
                         ELSE SomeVersion(content[ver].value) ]

\* ModuleFileContent.major_version
major_version(mod_file) ==
    IF mod_file.version.some /\ semver(mod_file.version.val).ok
    THEN SomeInt(semver(mod_file.version.val).major)
    ELSE NoInt

(***************************************************************************)
(* github_wrapper.py                                                       *)
(***************************************************************************)

GitHubReleaseInfo(org_and_repo, release) ==
    [ org_and_repo |-> org_and_repo,
      version      |-> LStripV(release.tag_name),
      tag_name     |-> release.tag_name,
      published_at |-> release.published_at,
      prerelease   |-> release.prerelease ]

\* The result of get_latest_release is None.
NoRelease ==
    [ found |-> FALSE,
      info  |-> [ org_and_repo |-> "", version |-> <<>>, tag_name |-> <<>>,
                  published_at |-> 0, prerelease |-> FALSE ] ]

\* sorted(all_releases, key=published_at, reverse=True)[0]: the latest
\* publication, the first of the list among equal times.
LatestPublished(l) ==
    l[CHOOSE i \in 1..Len(l) :
        /\ \A j \in 1..Len(l) : l[j].published_at <= l[i].published_at
        /\ \A j \in 1..(i - 1) : l[j].published_at < l[i].published_at]

\* A cache that remembers nothing.
CachePut_Forget(cache, key, value) == cache

\* A cache with one more entry.
CachePut(cache, key, value) ==
    [ k \in DOMAIN cache \cup { key } |-> IF k = key THEN value ELSE cache[k] ]

\* GithubWrapper.get_latest_release(org_and_repo): what it returns or
\* raises, the cache and the warnings afterwards, and the API calls made.
get_latest_release(org_and_repo, cache, up) ==
    IF org_and_repo \in DOMAIN cache
    THEN [ raised |-> "none", result |-> cache[org_and_repo],
           cache |-> cache, warns |-> <<>>, calls |-> <<>> ]
    ELSE LET call == << [ api |-> "get_releases", repo |-> org_and_repo,
                         ref |-> <<>> ] >>
         IN  IF up.releases = "ok"
             THEN LET result ==
                          IF up.list = <<>> THEN NoRelease
                          ELSE [ found |-> TRUE,
                                 info  |-> GitHubReleaseInfo(org_and_repo,
                                               LatestPublished(up.list)) ]
                  IN  [ raised |-> "none", result |-> result,
                        cache |-> CachePut(cache, org_and_repo, result),
                        warns |-> <<>>, calls |-> call ]
             ELSE IF up.releases = "GithubException"
             THEN [ raised |-> "none", result |-> NoRelease,
                    cache |-> CachePut(cache, org_and_repo, NoRelease),
                    warns |-> << [ kind |-> "error fetching releases",
                                   module |-> org_and_repo ] >>,
                    calls |-> call ]
             ELSE [ raised |-> up.releases, result |-> NoRelease,
                    cache |-> cache, warns |-> <<>>, calls |-> call ]

\* The result of try_get_module_file_content is None.
NoContent == [ found |-> FALSE, text |-> <<>> ]

\* GithubWrapper.try_get_module_file_content(org_and_repo, git_tag)
try_get_module_file_content(org_and_repo, git_tag, cache, up) ==
    LET cache_key == << org_and_repo, git_tag >>
        call == << [ api |-> "get_contents", repo |-> org_and_repo,
                     ref |-> git_tag ] >>
        absent(warns) ==
            [ raised |-> "none", result |-> NoContent,
              cache |-> CachePut(cache, cache_key, NoContent),
              warns |-> warns, calls |-> call ]
    IN  IF cache_key \in DOMAIN cache
        THEN [ raised |-> "none", result |-> cache[cache_key],
               cache |-> cache, warns |-> <<>>, calls |-> <<>> ]
        ELSE IF up.content = "GithubException404"
        THEN absent(<<>>)
        ELSE IF up.content = "GithubException500"
        THEN [ raised |-> "GithubException", result |-> NoContent,
               cache |-> cache, warns |-> <<>>, calls |-> call ]
        ELSE IF up.content = "ConnectionError"
        THEN absent(<< [ kind |-> "error fetching MODULE.bazel",
                         module |-> org_and_repo ] >>)
        ELSE IF up.content = "directory"
        THEN absent(<< [ kind |-> "MODULE.bazel is a directory",
                         module |-> org_and_repo ] >>)
        ELSE IF up.content = "undecodable"
        THEN absent(<< [ kind |-> "error decoding MODULE.bazel",
                         module |-> org_and_repo ] >>)
        ELSE LET result == [ found |-> TRUE, text |-> up.text ]
             IN  [ raised |-> "none", result |-> result,
                   cache |-> CachePut(cache, cache_key, result),
                   warns |-> <<>>, calls |-> call ]

(***************************************************************************)
(* main.py: plan_module_updates                                            *)
(***************************************************************************)

ModuleUpdateInfo(module, release, mod_file) ==
    [ module |-> module, release |-> release, mod_file |-> mod_file ]

\* A latest version that is the last of the list instead of the first.
latest_version_Last(module) == module.versions[Len(module.versions)]

\* BazelModuleInfo.latest_version, where it does not raise ValueError.
latest_version(module) == module.versions[1]

\* An uncaught exception ends the process with exit status 1.
Crash(exc, in) ==
    /\ pc' = "exited"
    /\ exit_code' = 1
    /\ error' = [ exc |-> exc, in |-> in ]

\* One iteration of the loop of plan_module_updates, for the module at
\* plan_idx.
PlanModule ==
    /\ pc = "plan"
    /\ plan_idx <= Len(modules)
    /\ LET module == modules[plan_idx]
           rel    == get_latest_release(module.org_and_repo, release_cache,
                                        upstream[module.org_and_repo])
           latest_release == rel.result.info
           fetched == try_get_module_file_content(module.org_and_repo,
                          latest_release.tag_name, module_file_cache,
                          upstream[module.org_and_repo])
           continue(w) ==
               /\ plan_idx' = plan_idx + 1
               /\ warnings' = w
               /\ UNCHANGED << pc, exit_code, error >>
           withReleases ==
               [ warnings EXCEPT !.github_wrapper = @ \o rel.warns ]
           withContents ==
               [ withReleases EXCEPT !.github_wrapper = @ \o fetched.warns ]
       IN  IF ~module.periodic_pull /\ argv_modules = <<>>
           THEN \* periodic-pull is false and no module was named
                /\ continue(warnings)
                /\ UNCHANGED << updated_modules, release_cache,
                                module_file_cache, api_calls >>
           ELSE /\ release_cache' = rel.cache
                /\ IF rel.raised # "none"
                   THEN /\ Crash(rel.raised, "plan_module_updates")
                        /\ api_calls' = api_calls \o rel.calls
                        /\ UNCHANGED << plan_idx, warnings, updated_modules,
                                        module_file_cache >>
                   ELSE IF rel.result.found /\ module.versions = <<>>
                   THEN \* latest_version raises ValueError
                        /\ Crash("ValueError", "plan_module_updates")
                        /\ api_calls' = api_calls \o rel.calls
                        /\ warnings' = withReleases
                        /\ UNCHANGED << plan_idx, updated_modules,
                                        module_file_cache >>
                   ELSE IF rel.result.found
                           /\ ~VersionEq(latest_version(module),
                                         latest_release.version)
                   THEN IF ~semver(latest_release.version).ok
                        THEN /\ continue(LogWarning(withReleases, "main",
                                   [ kind |-> "not a valid semantic version",
                                     module |-> module.name ]))
                             /\ api_calls' = api_calls \o rel.calls
                             /\ UNCHANGED << updated_modules,
                                             module_file_cache >>
                        ELSE /\ api_calls' = api_calls \o rel.calls
                                                \o fetched.calls
                             /\ IF fetched.raised # "none"
                                THEN /\ Crash(fetched.raised,
                                              "plan_module_updates")
                                     /\ warnings' = withReleases
                                     /\ UNCHANGED << plan_idx, updated_modules,
                                                     module_file_cache >>
                                ELSE /\ module_file_cache' = fetched.cache
                                     /\ IF fetched.result.found
                                           /\ fetched.result.text # <<>>
                                        THEN /\ updated_modules' =
                                                  Append(updated_modules,
                                                    ModuleUpdateInfo(module,
                                                      latest_release,
                                                      parse_MODULE_file_content(
                                                        fetched.result.text)))
                                             /\ continue(withContents)
                                        ELSE /\ continue(LogWarning(
                                                  withContents, "main",
                                                  [ kind |-> "could not retrieve MODULE.bazel",
                                                    module |-> module.name ]))
                                             /\ UNCHANGED updated_modules
                   ELSE \* up to date, or no release
                        /\ continue(withReleases)
                        /\ api_calls' = api_calls \o rel.calls
                        /\ UNCHANGED << updated_modules, module_file_cache >>
    /\ UNCHANGED << disk, files, upstream, argv_modules, modules, task_idx >>

\* A planner that may return before it has seen every module.
PlanReturn_Early ==
    /\ pc = "plan"
    /\ pc' = "generate"
    /\ task_idx' = 1
    /\ UNCHANGED << disk, files, upstream, argv_modules, modules, plan_idx,
                    updated_modules, warnings, release_cache,
                    module_file_cache, api_calls, exit_code, error >>

\* The end of the loop: plan_module_updates returns updated_modules.
PlanReturn ==
    /\ pc = "plan"
    /\ plan_idx > Len(modules)
    /\ pc' = "generate"
    /\ task_idx' = 1
    /\ UNCHANGED << disk, files, upstream, argv_modules, modules, plan_idx,
                    updated_modules, warnings, release_cache,
                    module_file_cache, api_calls, exit_code, error >>

(***************************************************************************)
(* bazel_wrapper.py: ModuleUpdateRunner                                    *)
(***************************************************************************)

PatchName == "module_dot_bazel_version.patch"

\* GitHubReleaseInfo.tarball
tarball(release) == [ repo |-> release.org_and_repo, tag |-> release.tag_name ]

\* sha256_from_url and sha256_from_string: the hash of what was hashed.
Sha256(x) == [ sha256 |-> x ]

\* re.sub(..., count=1) on one attribute: its first occurrence gets the
\* new value, a text without the attribute is left as it is.
ReplaceFirstAttr(content, name, value) ==
    LET i == FirstAttr(content, name)
    IN  IF i = 0 THEN content
        ELSE [ content EXCEPT ![i] = Attr(name, value) ]

\* A correction that stamps the compatibility level whether or not the
\* release version parses.
stamped_content_AlwaysLevel(task) ==
    ReplaceFirstAttr(ReplaceFirstAttr(task.mod_file.content, "version",
                                      task.release.version),
                     "compatibility_level", semver(task.release.version).major)

\* The corrected text of _create_patch_for_module_version_if_mismatch.
stamped_content(task) ==
    LET versioned ==
            ReplaceFirstAttr(task.mod_file.content, "version",
                             task.release.version)
    IN  IF semver(task.release.version).ok
        THEN ReplaceFirstAttr(versioned, "compatibility_level",
                              semver(task.release.version).major)
        ELSE versioned

\* difflib.unified_diff of two texts, joined: empty when they are equal.
unified_diff(original, stamped) ==
    [ empty |-> original = stamped, fromfile |-> original, tofile |-> stamped ]

\* The test "no patch needed" of
\* _create_patch_for_module_version_if_mismatch, where the declared
\* version is not None.
no_patch_needed(task) ==
    /\ VersionEq(task.mod_file.version.val, task.release.version)
    /\ major_version(task.mod_file) = task.mod_file.comp_level

\* self.patches after _create_patch_for_module_version_if_mismatch.
patches_of(task) ==
    IF no_patch_needed(task) THEN {}
    ELSE { [ name |-> PatchName,
             text |-> unified_diff(task.mod_file.content,
                                   stamped_content(task)) ] }

\* A source.json that never records the patches.
source_dict_NoPatches(task, patches) ==
    [ integrity    |-> Sha256(tarball(task.release)),
      strip_prefix |-> << task.module.org_and_repo, task.release.version >>,
      url          |-> tarball(task.release),
      patch_strip  |-> NoInt,
      patches      |-> {} ]

\* The dictionary written to source.json by _generate_source_json.
source_dict(task, patches) ==
    [ integrity    |-> Sha256(tarball(task.release)),
      strip_prefix |-> << task.module.org_and_repo, task.release.version >>,
      url          |-> tarball(task.release),
      patch_strip  |-> IF patches # {} THEN SomeInt(1) ELSE NoInt,
      patches      |-> { [ name |-> p.name, hash |-> Sha256(p.text) ] :
                         p \in patches } ]

\* A rewrite of metadata.json that keeps the new version alone.
add_version_to_metadata_Overwrite(version, raw_versions) == << version >>

\* The versions written to metadata.json by _add_version_to_metadata: the
\* new version in front of the sorted known ones.
add_version_to_metadata(version, raw_versions) ==
    << version >> \o _parse_versions(raw_versions)

\* A version directory as the registry had it before the run.
PublishedDirectory(name, version) ==
    [ MODULE_bazel |-> << Attr("version", version) >>,
      source_json  |-> [ integrity |-> Sha256([ repo |-> RepoOf[name],
                                                tag |-> V(version) ]),
                         strip_prefix |-> << RepoOf[name], version >>,
                         url |-> [ repo |-> RepoOf[name], tag |-> V(version) ],
                         patch_strip |-> NoInt,
                         patches |-> {} ],
      has_source_json |-> TRUE,
      has_MODULE_bazel |-> TRUE,
      patches |-> {} ]

\* main: ModuleUpdateRunner(task).generate_files() for the task at
\* task_idx.  The download of the release archive succeeds or fails.
GenerateFiles ==
    /\ pc = "generate"
    /\ task_idx <= Len(updated_modules)
    /\ \E download \in { "ok", "URLError" } :
         LET task     == updated_modules[task_idx]
             name     == task.module.name
             version  == task.release.version
             known    == _parse_versions(disk[name].versions)
             appended == [ disk EXCEPT ![name].versions =
                             add_version_to_metadata(version, @) ]
             key      == << name, version >>
             patches  == patches_of(task)
             written  ==
                 [ MODULE_bazel |-> IF no_patch_needed(task)
                                    THEN task.mod_file.content
                                    ELSE stamped_content(task),
                   source_json  |-> source_dict(task, patches),
                   has_source_json |-> TRUE,
                   has_MODULE_bazel |-> TRUE,
                   patches |-> patches ]
         IN  IF \E i \in 1..Len(known) : VersionEq(version, known[i])
             THEN \* _add_version_to_metadata raises RuntimeError
                  /\ Crash("RuntimeError", "generate_files")
                  /\ UNCHANGED << disk, files, task_idx >>
             ELSE /\ disk' = appended
                  /\ IF ~task.mod_file.version.some
                     THEN \* None == Version: the assert of Version.__eq__
                          /\ Crash("AssertionError", "generate_files")
                          /\ UNCHANGED << files, task_idx >>
                     ELSE IF download # "ok"
                     THEN \* sha256_from_url raises
                          /\ Crash(download, "generate_files")
                          /\ UNCHANGED << files, task_idx >>
                     ELSE /\ files' = CachePut(files, key, written)
                          /\ task_idx' = task_idx + 1
                          /\ UNCHANGED << pc, exit_code, error >>
    /\ UNCHANGED << upstream, argv_modules, modules, plan_idx,
                    updated_modules, warnings, release_cache,
                    module_file_cache, api_calls >>

\* main after the loop over the plan: log.fatal when the logger of main.py
\* has warnings, a normal return otherwise.
MainFinish ==
    /\ pc = "generate"
    /\ task_idx > Len(updated_modules)
    /\ pc' = "exited"
    /\ IF warnings.main # <<>>
       THEN /\ exit_code' = 1
            /\ error' = [ exc |-> "SystemExit", in |-> "main" ]
       ELSE /\ exit_code' = 0
            /\ UNCHANGED error
    /\ UNCHANGED << disk, files, upstream, argv_modules, modules, plan_idx,
                    updated_modules, task_idx, warnings, release_cache,
                    module_file_cache, api_calls >>

(***************************************************************************)
(* The pipeline: one run of main                                           *)
(***************************************************************************)

\* The comparisons before any was made.
NotCompared ==
    [ done |-> FALSE, lt_ab |-> FALSE, lt_ba |-> FALSE, lt_bc |-> FALSE,
      lt_ac |-> FALSE, eq_ab |-> FALSE ]

VersionIdle ==
    /\ cmp_a = <<>>
    /\ cmp_b = <<>>
    /\ cmp_c = <<>>
    /\ cmp = NotCompared

PolicyIdle ==
    /\ policy_module = BazelModuleInfo("", "", <<>>, FALSE, FALSE)
    /\ policy_candidate = <<>>
    /\ policy_verdict = "none"

\* The registry before the run.
InitialDisks ==
    { [ score_demo |-> d, extra |-> e ] :
        d \in DiskEntries("score_demo", DemoVersionLists, { << v_1_5_5 >> },
                          BadRepositories("score_demo"), BrokenKinds),
        e \in DiskEntries("extra", ExtraVersionLists, {},
                          { << RepoString("gitlab", RepoOf["extra"]) >> },
                          {}) }

\* The upstream during the run: every release list with a declaration
\* file, and one release list with every failure of the declaration fetch
\* and with an empty declaration file.
InitialUpstreams ==
    { [ r \in Repos |-> IF r = RepoOf["score_demo"] THEN d ELSE e ] :
        d \in UpstreamStates(DemoReleaseLists, ListFailures, {},
                             DeclarationTexts \ { <<>> })
              \cup UpstreamStates({ << Release(V(v_1_5_4), 2, FALSE),
                                       Release(V(v_1_5_5), 1, FALSE) >> },
                                  {}, ContentFailures, { <<>> }),
        e \in UpstreamStates(ExtraReleaseLists, { "GithubException" }, {},
                             DeclarationTexts \ { <<>> }) }

\* The version directories of the versions a metadata.json lists.
InitialFiles(d) ==
    [ k \in UNION { { << m, d[m].versions[i] >> :
                        i \in 1..Len(d[m].versions) } : m \in ModuleNames } |->
        PublishedDirectory(k[1], k[2]) ]

PipelineIdle ==
    /\ disk = [ m \in ModuleNames |-> BrokenEntry("notdir") ]
    /\ files = << >>
    /\ upstream = [ r \in Repos |->
                      [ releases |-> "ok", list |-> <<>>, content |-> "none",
                        text |-> <<>> ] ]
    /\ argv_modules = <<>>
    /\ pc = "idle"
    /\ modules = <<>>
    /\ plan_idx = 1
    /\ updated_modules = <<>>
    /\ task_idx = 1
    /\ warnings = NoWarnings
    /\ release_cache = << >>
    /\ module_file_cache = << >>
    /\ api_calls = <<>>
    /\ exit_code = -1
    /\ error = NoError
    /\ FirstRun

Init ==
    /\ disk \in InitialDisks
    /\ files = InitialFiles(disk)
    /\ upstream \in InitialUpstreams
    /\ argv_modules \in NamedModules
    /\ pc = "start"
    /\ modules = <<>>
    /\ plan_idx = 1
    /\ updated_modules = <<>>
    /\ task_idx = 1
    /\ warnings = NoWarnings
    /\ release_cache = << >>
    /\ module_file_cache = << >>
    /\ api_calls = <<>>
    /\ exit_code = -1
    /\ error = NoError
    /\ FirstRun
    /\ VersionIdle
    /\ PolicyIdle

Next ==
    \/ ReadModules /\ UNCHANGED << version_vars, policy_vars, rerun_vars >>
    \/ PlanModule /\ UNCHANGED << version_vars, policy_vars, rerun_vars >>
    \/ PlanReturn /\ UNCHANGED << version_vars, policy_vars, rerun_vars >>
    \/ GenerateFiles /\ UNCHANGED << version_vars, policy_vars, rerun_vars >>
    \/ MainFinish /\ UNCHANGED << version_vars, policy_vars, rerun_vars >>

Spec == Init /\ [][Next]_vars

(***************************************************************************)
(* main run again: a new process on the registry the previous run left,    *)
(* with the same command line and the same upstream                        *)
(***************************************************************************)

MaxRuns == 2

Rerun ==
    /\ pc = "exited"
    /\ run < MaxRuns
    /\ run' = run + 1
    /\ previous' = [ exit_code |-> exit_code, error |-> error ]
    /\ pc' = "start"
    /\ modules' = <<>>
    /\ plan_idx' = 1
    /\ updated_modules' = <<>>
    /\ task_idx' = 1
    /\ warnings' = NoWarnings
    /\ release_cache' = << >>
    /\ module_file_cache' = << >>
    /\ api_calls' = <<>>
    /\ exit_code' = -1
    /\ error' = NoError
    /\ UNCHANGED << disk, files, upstream, argv_modules >>

NextRerun ==
    \/ Next
    \/ Rerun /\ UNCHANGED << version_vars, policy_vars >>

SpecRerun == Init /\ [][NextRerun]_vars

(***************************************************************************)
(* Comparing Versions: three Versions are drawn and compared               *)
(***************************************************************************)

VersionUniverse ==
    { v_1_0_0, v_1_0_0_build_a, v_1_0_0_build_b, v_01_0_0, v_1_9, v_1_9_0,
      v_1_10_0, v_1_5_5, v_1_5_5_alpha, v_2_0_1_alpha, v_2_0_1_alpha_5,
      v_2_0_1_beta, v_foo, v_ABC, v_1_0_0_alpha, v_1_0_1, v_1_1_0, v_2_0_0 }

InitVersion ==
    /\ PipelineIdle
    /\ PolicyIdle
    /\ cmp_a \in VersionUniverse
    /\ cmp_b \in VersionUniverse
    /\ cmp_c \in VersionUniverse
    /\ cmp = NotCompared

\* a < b, b < a, b < c, a < c and a == b are evaluated.
Compare ==
    /\ ~cmp.done
    /\ cmp' = [ done  |-> TRUE,
                lt_ab |-> VersionLt(cmp_a, cmp_b),
                lt_ba |-> VersionLt(cmp_b, cmp_a),
                lt_bc |-> VersionLt(cmp_b, cmp_c),
                lt_ac |-> VersionLt(cmp_a, cmp_c),
                eq_ab |-> VersionEq(cmp_a, cmp_b) ]
    /\ UNCHANGED << cmp_a, cmp_b, cmp_c >>

NextVersion == Compare /\ UNCHANGED << pipeline_vars, policy_vars, rerun_vars >>

SpecVersion == InitVersion /\ [][NextVersion]_vars

(***************************************************************************)
(* The acceptability policy: is_release_semver_acceptable, which           *)
(* tests/test_main.py imports from main.py                                 *)
(***************************************************************************)

\* The candidate is new, it is a semantic version, and it is strictly
\* greater than every known semantic version of its (major, minor) line.
is_release_semver_acceptable(module, version) ==
    /\ \A i \in 1..Len(module.versions) : ~VersionEq(module.versions[i], version)
    /\ semver(version).ok
    /\ \A i \in 1..Len(module.versions) :
         LET known == module.versions[i]
         IN  ( /\ semver(known).ok
               /\ semver(known).major = semver(version).major
               /\ semver(known).minor = semver(version).minor )
             => VersionLt(known, version)

\* EXAMPLE_MODULE of tests/test_main.py.
EXAMPLE_MODULE ==
    BazelModuleInfo("example-module", "example_org/example_repo",
                    << v_1_5_5, v_2_0_1_alpha_5 >>, TRUE, FALSE)

\* The candidates of the scenario list.
AcceptableScenarios ==
    { v_1_5_6, v_1_5_6_alpha, v_2_0_1, v_2_0_1_beta, v_2_0_1_alpha_6,
      v_2_0_2, v_1_6_0, v_2_1_0, v_3_0_0, v_1_4_9 }

RejectedScenarios ==
    { v_1_5_5, v_2_0_1_alpha_5, v_1_5_0, v_1_5_4, v_2_0_0, v_2_0_1_alpha,
      v_2_0_1_alpha_4, v_1_5_5_alpha, v_foo }

\* The longest list of known versions of a policy decision.
MaxKnown == 2

PolicyKnownVersions == { v_1_5_5, v_2_0_1_alpha_5, v_2_0_0 }

InitPolicy ==
    /\ PipelineIdle
    /\ VersionIdle
    /\ \E n \in 0..MaxKnown :
         \E known \in [ 1..n -> PolicyKnownVersions ] :
            policy_module =
                BazelModuleInfo("example-module", "example_org/example_repo",
                                known, TRUE, FALSE)
    /\ policy_candidate \in AcceptableScenarios \cup RejectedScenarios
    /\ policy_verdict = "none"

\* verify_new_version of tests/test_main.py.
VerifyNewVersion ==
    /\ policy_verdict = "none"
    /\ policy_verdict' =
          IF is_release_semver_acceptable(policy_module, policy_candidate)
          THEN "accepted" ELSE "rejected"
    /\ UNCHANGED << policy_module, policy_candidate >>

NextPolicy == VerifyNewVersion /\ UNCHANGED << pipeline_vars, version_vars, rerun_vars >>

SpecPolicy == InitPolicy /\ [][NextPolicy]_vars

(***************************************************************************)
(* The runner alone: ModuleUpdateRunner(task).generate_files() on one task  *)
(* built as tests/conftest.py builds it (make_update_info), the release     *)
(* being a semantic version or not                                          *)
(***************************************************************************)

RunnerReleaseVersions == { v_1_0_0, v_2_0_0, v_3_0_0, v_ABC, v_1_9 }

RunnerDeclaredVersions == { v_1_0_0, v_2_0_0, v_ABC }

RunnerLevels == { 1, 2, 42 }

\* The fetched MODULE.bazel texts: the version and the compatibility level
\* declared or not, and texts that declare the version twice.
RunnerTexts ==
    { ver \o lvl :
        ver \in { <<>> } \cup { << Attr("version", v) >> :
                                 v \in RunnerDeclaredVersions },
        lvl \in { <<>> } \cup { << Attr("compatibility_level", n) >> :
                                 n \in RunnerLevels } }
    \cup { << Attr("version", v_1_0_0), Attr("version", v_1_0_0),
              Attr("compatibility_level", n) >> : n \in RunnerLevels }

\* The versions of modules/score_demo/metadata.json before the runner.
RunnerVersionLists ==
    { <<>>, << v_1_0_0 >>, << v_ABC >>, << v_1_0_0, v_2_0_0 >> }

\* make_update_info: the task of release version on the module whose
\* metadata.json lists the versions l, with the fetched text.
make_update_info(version, text, l) ==
    ModuleUpdateInfo(
        BazelModuleInfo("score_demo", RepoOf["score_demo"],
                        _parse_versions(l), TRUE, FALSE),
        GitHubReleaseInfo(RepoOf["score_demo"], Release(V(version), 1, FALSE)),
        parse_MODULE_file_content(text))

InitRunner ==
    /\ \E l \in RunnerVersionLists :
         /\ disk = [ score_demo |->
                       Metadata(<< RepoString("github", RepoOf["score_demo"]) >>,
                                l, TRUE, FALSE),
                     extra |-> BrokenEntry("notdir") ]
         /\ \E version \in RunnerReleaseVersions, text \in RunnerTexts :
              updated_modules = << make_update_info(version, text, l) >>
    /\ files = InitialFiles(disk)
    /\ upstream = [ r \in Repos |->
                      [ releases |-> "ok", list |-> <<>>, content |-> "none",
                        text |-> <<>> ] ]
    /\ argv_modules = <<>>
    /\ pc = "generate"
    /\ modules = <<>>
    /\ plan_idx = 1
    /\ task_idx = 1
    /\ warnings = NoWarnings
    /\ release_cache = << >>
    /\ module_file_cache = << >>
    /\ api_calls = <<>>
    /\ exit_code = -1
    /\ error = NoError
    /\ FirstRun
    /\ VersionIdle
    /\ PolicyIdle

NextRunner == GenerateFiles /\ UNCHANGED << version_vars, policy_vars, rerun_vars >>

SpecRunner == InitRunner /\ [][NextRunner]_vars

(***************************************************************************)
(* Properties of the planner and of the runner                             *)
(***************************************************************************)

Tasks == { updated_modules[i] : i \in 1..Len(updated_modules) }

Known(module) == { module.versions[i] : i \in 1..Len(module.versions) }

\* C1: plan_module_updates never emits an update task whose release
\* version is already present, by raw-string equality, anywhere in the
\* module's list of known versions.
C1_NoTaskForKnownVersion ==
    \A t \in Tasks :
        \A k \in Known(t.module) : ~VersionEq(t.release.version, k)

\* C2: a release whose version is lower than a version the module already
\* records never becomes an update task, and the version list persisted
\* by the runner never receives a version lower than one it already had.
C2_NoBackwardsUpdate ==
    /\ \A t \in Tasks :
          \A k \in Known(t.module) : ~VersionLt(t.release.version, k)
    /\ \A i \in 1..(task_idx - 1) :
          LET persisted == disk[updated_modules[i].module.name].versions
          IN  \A j \in 2..Len(persisted) :
                 ~VersionLt(persisted[1], persisted[j])

\* C3: whenever the runner changes the versions of a metadata.json (the
\* append of _add_version_to_metadata), the list it leaves there is sorted
\* in descending Version order.
C3_AppendKeepsDescendingOrder ==
    [][ \A m \in ModuleNames :
          disk'[m].versions # disk[m].versions
              => IsSortedDescending(disk'[m].versions) ]_vars

\* C4: the exit code is non-zero if any warning was recorded during the
\* run, whichever logger recorded it.
C4_WarningsGiveNonZeroExit ==
    (pc = "exited" /\ AllWarnings(warnings) # <<>>) => exit_code # 0

\* The hosting API fails for the release list, resp. for the declaration
\* file, of a repository.
ReleaseListFails(repo) == upstream[repo].releases # "ok"

DeclarationFetched(repo) ==
    \E i \in 1..Len(api_calls) :
        api_calls[i].api = "get_contents" /\ api_calls[i].repo = repo

DeclarationFails(repo) ==
    DeclarationFetched(repo) /\ upstream[repo].content # "ok"

WarnedAbout(module) ==
    \E i \in 1..Len(AllWarnings(warnings)) :
        AllWarnings(warnings)[i].module \in { module.name, module.org_and_repo }

\* C5: a failure while fetching the release list or the declaration file
\* of a module never propagates out of plan_module_updates; the module gets
\* a warning and no task, and planning goes on.
C5_FetchFailureIsAbsent ==
    /\ ~( /\ pc = "exited"
          /\ error.in = "plan_module_updates"
          /\ error.exc \in { "GithubException", "ConnectionError" } )
    /\ \A i \in 1..(plan_idx - 1) :
          LET module == modules[i]
              looked == module.periodic_pull \/ argv_modules # <<>>
          IN  ( /\ pc \in { "plan", "generate", "exited" }
                /\ looked
                /\ \/ ReleaseListFails(module.org_and_repo)
                   \/ DeclarationFails(module.org_and_repo) )
              => /\ WarnedAbout(module)
                 /\ \A t \in Tasks : t.module.name # module.name

\* C6: plan_module_updates returns its task list without raising for every
\* module list read_modules can produce, a module without any version
\* included: where the hosting API raises nothing, the planner raises
\* nothing.
C6_PlanNeverRaises ==
    ( /\ pc = "exited"
      /\ error.in = "plan_module_updates" )
    => error.exc \in { "GithubException", "ConnectionError" }

\* C7: Version ordering is transitive over parsed and unparsed Versions:
\* a < b and b < c imply a < c.
C7_OrderingIsTransitive ==
    cmp.done => ((cmp.lt_ab /\ cmp.lt_bc) => cmp.lt_ac)

\* C8: Version ordering is total with respect to raw-string equality:
\* exactly one of a < b, a == b, b < a holds.
C8_OrderingIsTotal ==
    cmp.done =>
        \/ cmp.lt_ab /\ ~cmp.eq_ab /\ ~cmp.lt_ba
        \/ ~cmp.lt_ab /\ cmp.eq_ab /\ ~cmp.lt_ba
        \/ ~cmp.lt_ab /\ ~cmp.eq_ab /\ cmp.lt_ba

IsPrerelease(v) == semver(v).ok /\ semver(v).prerelease # <<>>

SameCore(a, b) ==
    /\ semver(a).ok
    /\ semver(b).ok
    /\ semver(a).major = semver(b).major
    /\ semver(a).minor = semver(b).minor
    /\ semver(a).patch = semver(b).patch

\* C10: a prerelease X.Y.Z-pre becomes an update task only if no release
\* X.Y.Z is known and it is strictly higher than every known prerelease of
\* the core X.Y.Z.
C10_PrereleaseOnlyForward ==
    \A t \in Tasks :
        IsPrerelease(t.release.version) =>
            \A k \in Known(t.module) :
                SameCore(k, t.release.version) =>
                    /\ IsPrerelease(k)
                    /\ VersionLt(k, t.release.version)

(***************************************************************************)
(* Properties of the runner on one task                                    *)
(***************************************************************************)

RunnerTask == updated_modules[1]

RunnerKey == << RunnerTask.module.name, RunnerTask.release.version >>

\* generate_files was called and returned or raised.
RunnerActed == pc = "exited" \/ task_idx > 1

\* generate_files returned: every file of the version is written.
RunnerWrote == task_idx > 1

\* The runner was stopped by its environment or by the refusal of a
\* recorded version, not by the content of the task.
RunnerRefused == error.exc \in { "RuntimeError", "URLError" }

\* The semantic major number of a Version, absent when it does not parse.
MajorOf(v) == IF semver(v).ok THEN SomeInt(semver(v).major) ELSE NoInt

\* The declared Version equals the release Version and the declared
\* compatibility level equals the major number of the release version.
NoCorrectionNeeded(t) ==
    /\ t.mod_file.version.some
    /\ t.mod_file.version.val = t.release.version
    /\ t.mod_file.comp_level = MajorOf(t.release.version)

\* The names of the patch files under patches/ of the task's version.
PatchArtifacts ==
    IF RunnerKey \in DOMAIN files
    THEN { p.name : p \in files[RunnerKey].patches }
    ELSE {}

\* C11: for every task the runner materializes (release semantic or not,
\* version and compatibility level declared or not), no patch artifact is
\* produced if and only if the declared Version equals the release Version
\* and the declared level equals the release's major number; every other
\* combination produces module_dot_bazel_version.patch.
C11_PatchIffMismatch ==
    (RunnerActed /\ ~RunnerRefused) =>
        /\ (PatchArtifacts = {}) <=> NoCorrectionNeeded(RunnerTask)
        /\ ~NoCorrectionNeeded(RunnerTask) => PatchArtifacts = { PatchName }

\* The runner wrote the files of a task that needed correction and whose
\* release version is a semantic version.
CorrectionWritten ==
    /\ RunnerWrote
    /\ ~NoCorrectionNeeded(RunnerTask)
    /\ semver(RunnerTask.release.version).ok

\* The MODULE.bazel written for the task, and what parsing it again yields.
WrittenText == files[RunnerKey].MODULE_bazel

WrittenParse == parse_MODULE_file_content(WrittenText)

\* C12: when correction is needed and the release version R is a semantic
\* version, the MODULE.bazel written is the corrected text: parsing it
\* again yields version R and compatibility level major(R), whatever
\* version and level the fetched text declared, and a declared version
\* other than R is no longer the version attribute.
C12_WrittenDeclaresRelease ==
    CorrectionWritten =>
        /\ WrittenParse.version = SomeVersion(RunnerTask.release.version)
        /\ WrittenParse.comp_level = MajorOf(RunnerTask.release.version)
        /\ RunnerTask.mod_file.version.val # RunnerTask.release.version =>
             /\ WrittenText # RunnerTask.mod_file.content
             /\ WrittenParse.version # RunnerTask.mod_file.version

\* C13: when the release version does not parse as a semantic version,
\* the text written differs from the fetched text in nothing but the first
\* version attribute, which is the release version: the declared
\* compatibility level is exactly as it was.
C13_NonSemverKeepsLevel ==
    (RunnerWrote /\ ~semver(RunnerTask.release.version).ok) =>
        /\ WrittenParse.version = SomeVersion(RunnerTask.release.version)
        /\ WrittenParse.comp_level = RunnerTask.mod_file.comp_level
        /\ Len(WrittenText) = Len(RunnerTask.mod_file.content)
        /\ \A i \in 1..Len(WrittenText) :
              i # FirstAttr(RunnerTask.mod_file.content, "version")
                  => WrittenText[i] = RunnerTask.mod_file.content[i]

\* Release "ABC" with a fetched declaration of version 1.0.0 and level 42
\* was corrected and written.
C13_Witness ==
    /\ RunnerWrote
    /\ RunnerTask.release.version = v_ABC
    /\ RunnerTask.mod_file.content =
          << Attr("version", v_1_0_0), Attr("compatibility_level", 42) >>
    /\ PatchArtifacts = { PatchName }

\* C14: the source.json written for a version has the fields patches and
\* patch_strip exactly when a patch file was written under patches/ for
\* the task; patches then maps each patch file written to the hash of
\* exactly the text written to it, and neither field is there otherwise.
C14_SourceJsonRecordsPatches ==
    RunnerWrote =>
        /\ files[RunnerKey].source_json.patch_strip.some
              <=> files[RunnerKey].patches # {}
        /\ files[RunnerKey].source_json.patches # {}
              <=> files[RunnerKey].patches # {}
        /\ files[RunnerKey].source_json.patches =
              { [ name |-> p.name, hash |-> Sha256(p.text) ] :
                  p \in files[RunnerKey].patches }
        /\ files[RunnerKey].patches # {}
              => files[RunnerKey].source_json.patch_strip = SomeInt(1)

\* A task was written with its patch file and a source.json recording it.
C14_Witness ==
    /\ RunnerWrote
    /\ PatchArtifacts = { PatchName }
    /\ files[RunnerKey].source_json.patch_strip = SomeInt(1)
    /\ \E p \in files[RunnerKey].patches : ~p.text.empty

\* The release version of the task the runner is about to materialize is
\* recorded in the metadata.json of its module.
AlreadyRecorded ==
    /\ pc = "generate"
    /\ task_idx <= Len(updated_modules)
    /\ \E i \in 1..Len(disk[updated_modules[task_idx].module.name].versions) :
          disk[updated_modules[task_idx].module.name].versions[i]
              = updated_modules[task_idx].release.version

\* C15: materializing a task whose release version is already recorded in
\* metadata.json fails fatally and ends the run, and leaves metadata.json
\* and every file of the registry as they were before the attempt.
C15_RecordedVersionRefused ==
    [][ AlreadyRecorded =>
          /\ pc' = "exited"
          /\ exit_code' = 1
          /\ error' = [ exc |-> "RuntimeError", in |-> "generate_files" ]
          /\ disk' = disk
          /\ files' = files
          /\ task_idx' = task_idx ]_vars

\* The runner refused the release "ABC", which metadata.json records.
C15_Witness ==
    /\ pc = "exited"
    /\ error = [ exc |-> "RuntimeError", in |-> "generate_files" ]
    /\ RunnerTask.release.version = v_ABC
    /\ disk[RunnerTask.module.name].versions = << v_ABC >>
    /\ RunnerKey \in DOMAIN files

(***************************************************************************)
(* Properties of the planner and of read_modules                           *)
(***************************************************************************)

\* plan_module_updates was entered and has returned or raised.
PlannerEnded ==
    \/ pc = "generate"
    \/ pc = "exited" /\ error.in # "read_modules"

\* The module is not skipped for its periodic-pull flag.
Looked(module) == module.periodic_pull \/ argv_modules # <<>>

\* The upstream reports a latest release for the module, and its version.
HasLatest(module) ==
    /\ upstream[module.org_and_repo].releases = "ok"
    /\ upstream[module.org_and_repo].list # <<>>

LatestVersion(module) ==
    LStripV(LatestPublished(upstream[module.org_and_repo].list).tag_name)

\* The latest release is not the latest known version of the module.
LatestIsNew(module) ==
    module.versions = <<>> \/ module.versions[1] # LatestVersion(module)

\* The declaration file of the latest release was asked for and the
\* hosting API gave no text.
DeclarationUnavailable(module) ==
    /\ DeclarationFetched(module.org_and_repo)
    /\ \/ upstream[module.org_and_repo].content # "ok"
       \/ upstream[module.org_and_repo].text = <<>>

\* The logger of main.py recorded a warning that names the module.
MainWarnedAbout(module) ==
    \E i \in 1..Len(warnings.main) : warnings.main[i].module = module.name

HasTask(module) == \E t \in Tasks : t.module.name = module.name

\* The module has a new, semantic latest release whose declaration file
\* the hosting API serves.
Updatable(module) ==
    /\ Looked(module)
    /\ HasLatest(module)
    /\ module.versions # <<>>
    /\ LatestIsNew(module)
    /\ semver(LatestVersion(module)).ok
    /\ upstream[module.org_and_repo].content = "ok"
    /\ upstream[module.org_and_repo].text # <<>>

\* C16: a module whose latest release is not a semantic version, or whose
\* declaration file for that release cannot be retrieved, gets no task and
\* a warning, and the planner goes on: the other modules that have an
\* update still get their tasks.
C16_BadReleaseSkippedWithWarning ==
    PlannerEnded =>
        \A i \in 1..Len(modules) :
            ( /\ Looked(modules[i])
              /\ \/ /\ HasLatest(modules[i])
                    /\ LatestIsNew(modules[i])
                    /\ ~semver(LatestVersion(modules[i])).ok
                 \/ DeclarationUnavailable(modules[i]) )
            => /\ ~HasTask(modules[i])
               /\ MainWarnedAbout(modules[i])
               /\ \A j \in 1..Len(modules) :
                     Updatable(modules[j]) => HasTask(modules[j])

\* plan_module_updates (the logger of main.py or the GitHub wrapper it
\* calls) recorded a warning that names the module or its repository.
PlannerWarnedAbout(module) ==
    \E i \in 1..Len(warnings.main \o warnings.github_wrapper) :
        (warnings.main \o warnings.github_wrapper)[i].module
            \in { module.name, module.org_and_repo }

\* The latest known version of the module is the version of the latest
\* release the upstream reports.
UpToDate(module) ==
    /\ HasLatest(module)
    /\ module.versions # <<>>
    /\ module.versions[1] = LatestVersion(module)

\* C17: a module whose latest known version equals the version of the
\* upstream's latest release, and a module without the periodic-pull flag
\* when no module was named, gets no task and no warning from
\* plan_module_updates, and its declaration file is never asked for.
C17_SilentSkip ==
    \A i \in 1..Len(modules) :
        (~Looked(modules[i]) \/ UpToDate(modules[i]))
        => /\ ~HasTask(modules[i])
           /\ ~PlannerWarnedAbout(modules[i])
           /\ ~DeclarationFetched(modules[i].org_and_repo)

\* The planner returned after it asked for the releases of a module that
\* is up to date and lists two versions.
C17_Witness ==
    /\ pc = "generate"
    /\ \E i \in 1..Len(modules) :
          /\ Looked(modules[i])
          /\ UpToDate(modules[i])
          /\ Len(modules[i].versions) = 2
          /\ \E k \in 1..Len(api_calls) :
                /\ api_calls[k].api = "get_releases"
                /\ api_calls[k].repo = modules[i].org_and_repo

\* re.search(r"\d+\.\d+\.\d+-[A-Za-z]+", tag_name), the test of
\* enrich_modules in scripts/check_and_update_modules.py: the tag has three
\* dot-separated numbers followed by a dash and a letter.  The numbers end
\* at the dash at index i, with their dots at p and q.
HasPrereleaseSuffix(tag) ==
    \E p, q, i \in 1..Len(tag) :
        /\ 1 < p /\ p + 1 < q /\ q + 1 < i /\ i < Len(tag)
        /\ tag[p] = "." /\ tag[q] = "." /\ tag[i] = "-"
        /\ tag[p - 1] \in Digits
        /\ \A k \in (p + 1)..(q - 1) : tag[k] \in Digits
        /\ \A k \in (q + 1)..(i - 1) : tag[k] \in Digits
        /\ tag[i + 1] \in Letters

\* C18: a release flagged as prerelease whose tag lacks a version core
\* followed by a dash and an alphabetic suffix never becomes an update
\* task.
C18_PrereleaseNeedsSuffix ==
    \A t \in Tasks :
        t.release.prerelease => HasPrereleaseSuffix(t.release.tag_name)

\* The module directory has a metadata.json that try_parse_metadata_json
\* accepts: it loads and its repository is one github: string.
Parsable(m) ==
    /\ disk[m].kind = "json"
    /\ Len(disk[m].repository) = 1
    /\ disk[m].repository[1].scheme = "github"

\* The module directory has no metadata.json, or one that does not load,
\* or one whose repository is not one github: string.
Unreadable(m) == disk[m].kind # "notdir" /\ ~Parsable(m)

\* The names read_modules goes through.
Considered ==
    IF argv_modules = <<>> THEN ModuleNames
    ELSE { argv_modules[i] : i \in 1..Len(argv_modules) }

\* read_modules recorded a warning about the metadata of the module.
ReadWarnedAbout(m) ==
    \E i \in 1..Len(warnings.bazel_wrapper) :
        /\ warnings.bazel_wrapper[i].module = m
        /\ warnings.bazel_wrapper[i].kind # "not prefixed"

IsRead(m) == \E i \in 1..Len(modules) : modules[i].name = m

\* The unreadable module is skipped with a warning and the others are read.
SkippedWithWarning(m) ==
    /\ ReadWarnedAbout(m)
    /\ ~IsRead(m)
    /\ error.in # "read_modules"
    /\ \A o \in Considered :
          (Parsable(o) /\ ~disk[o].obsolete) => IsRead(o)

FirstUnparsed ==
    CHOOSE i \in 1..Len(argv_modules) :
        /\ ~Parsable(argv_modules[i])
        /\ \A j \in 1..(i - 1) : Parsable(argv_modules[j])

MaxListed == 3

ListedVersions ==
    { v_1_0_0, v_1_0_0_build_a, v_1_9, v_1_9_0, v_1_10_0, v_2_0_1_alpha,
      v_2_0_1_alpha_5, v_foo }

InitRead ==
    /\ \E n \in 0..MaxListed :
         \E l \in [ 1..n -> ListedVersions ] :
            disk = [ score_demo |->
                       Metadata(<< RepoString("github", RepoOf["score_demo"]) >>,
                                l, TRUE, FALSE),
                     extra |-> BrokenEntry("notdir") ]
    /\ files = InitialFiles(disk)
    /\ upstream = [ r \in Repos |->
                      [ releases |-> "ok", list |-> <<>>, content |-> "none",
                        text |-> <<>> ] ]
    /\ argv_modules \in { <<>>, << "score_demo" >> }
    /\ pc = "start"
    /\ modules = <<>>
    /\ plan_idx = 1
    /\ updated_modules = <<>>
    /\ task_idx = 1
    /\ warnings = NoWarnings
    /\ release_cache = << >>
    /\ module_file_cache = << >>
    /\ api_calls = <<>>
    /\ exit_code = -1
    /\ error = NoError
    /\ FirstRun
    /\ VersionIdle
    /\ PolicyIdle

NextRead == ReadModules /\ UNCHANGED << version_vars, policy_vars, rerun_vars >>

SpecRead == InitRead /\ [][NextRead]_vars

\* C20: for every module loaded from a metadata.json, whatever the order
\* and kind of the version strings it lists, the in-memory versions are
\* sorted descending under the Version ordering and no known version is
\* greater than latest_version.
C20_LoadedVersionsSorted ==
    \A i \in 1..Len(modules) :
        /\ IsSortedDescending(modules[i].versions)
        /\ \A k \in 1..Len(modules[i].versions) :
              ~VersionLt(latest_version(modules[i]), modules[i].versions[k])

(***************************************************************************)
(* Properties of a second run of main                                      *)
(***************************************************************************)

\* The task an uninterrupted run plans for the module, and the version
\* directory it writes for it.
ExpectedTask(module) ==
    ModuleUpdateInfo(module,
        GitHubReleaseInfo(module.org_and_repo,
            LatestPublished(upstream[module.org_and_repo].list)),
        parse_MODULE_file_content(upstream[module.org_and_repo].text))

ExpectedDirectory(task) ==
    [ MODULE_bazel |-> IF no_patch_needed(task) THEN task.mod_file.content
                       ELSE stamped_content(task),
      source_json  |-> source_dict(task, patches_of(task)),
      has_source_json |-> TRUE,
      has_MODULE_bazel |-> TRUE,
      patches |-> patches_of(task) ]

\* The second run, started after the first was aborted in generate_files,
\* has ended without a failure of the hosting API or of the download.
RerunAfterAbortEnded ==
    /\ run = 2
    /\ previous.error.in = "generate_files"
    /\ pc = "exited"
    /\ error.exc \notin { "URLError", "GithubException", "ConnectionError" }

\* C21: after a run was aborted while it materialized its tasks, a re-run
\* against the unchanged upstream writes, for every version that was not
\* yet appended to a metadata.json when it started, the files an
\* uninterrupted run would have written.
C21_RerunRederives ==
    RerunAfterAbortEnded =>
        \A i \in 1..Len(modules) :
            ( /\ Updatable(modules[i])
              /\ \A k \in 1..Len(modules[i].versions) :
                    modules[i].versions[k] # LatestVersion(modules[i]) )
            => /\ << modules[i].name, LatestVersion(modules[i]) >>
                     \in DOMAIN files
               /\ files[<< modules[i].name, LatestVersion(modules[i]) >>]
                     = ExpectedDirectory(ExpectedTask(modules[i]))

(***************************************************************************)
(* Properties of the ordering of semantic versions                         *)
(***************************************************************************)

\* The three compared Versions all parse as semantic versions.
AllParse == semver(cmp_a).ok /\ semver(cmp_b).ok /\ semver(cmp_c).ok

\* a and b have been drawn as x and y and compared.
ComparedAs(x, y) == cmp.done /\ cmp_a = x /\ cmp_b = y

\* C22: among Versions that parse as semantic versions, a < b and b < c
\* imply a < c, a < b excludes b < a, and 1.0.0 < 1.0.1 < 1.1.0 < 2.0.0 and
\* 1.0.0-alpha < 1.0.0.
C22_SemverOrdering ==
    /\ (cmp.done /\ AllParse) =>
            /\ (cmp.lt_ab /\ cmp.lt_bc) => cmp.lt_ac
            /\ ~(cmp.lt_ab /\ cmp.lt_ba)
    /\ ComparedAs(v_1_0_0, v_1_0_1) => cmp.lt_ab /\ ~cmp.lt_ba
    /\ ComparedAs(v_1_0_1, v_1_1_0) => cmp.lt_ab /\ ~cmp.lt_ba
    /\ ComparedAs(v_1_1_0, v_2_0_0) => cmp.lt_ab /\ ~cmp.lt_ba
    /\ ComparedAs(v_1_0_0_alpha, v_1_0_0) => cmp.lt_ab /\ ~cmp.lt_ba

\* 1.0.0-alpha, 1.0.0 and 1.0.1 have been compared and found ascending.
C22_Witness ==
    /\ ComparedAs(v_1_0_0_alpha, v_1_0_0)
    /\ cmp_c = v_1_0_1
    /\ AllParse
    /\ cmp.lt_ab /\ cmp.lt_bc /\ cmp.lt_ac

(***************************************************************************)
(* Properties of the registry tree at the end of a run                     *)
(***************************************************************************)

\* The version directory of module m and version v holds MODULE.bazel and
\* source.json.
EntryComplete(m, v) ==
    /\ << m, v >> \in DOMAIN files
    /\ files[<< m, v >>].has_MODULE_bazel
    /\ files[<< m, v >>].has_source_json

\* C23: when a run has ended, normally or by a fatal abort, every version
\* listed in a metadata.json has its version directory with MODULE.bazel
\* and source.json.
C23_NoHalfWrittenEntry ==
    pc = "exited" =>
        \A m \in ModuleNames :
            \A i \in 1..Len(disk[m].versions) :
                EntryComplete(m, disk[m].versions[i])

(***************************************************************************)
(* Properties of a run that follows a clean run                            *)
(***************************************************************************)

\* The second run, started after a first run that ended without a fatal
\* error, has finished planning.
SecondRunPlanned ==
    /\ run = 2
    /\ previous.exit_code = 0
    /\ pc \in { "generate", "exited" }

\* C24: a run that immediately follows a run completed without a fatal
\* error, on the same upstream state, plans zero tasks and completes
\* without a fatal error.
C24_FixedPoint ==
    SecondRunPlanned =>
        /\ updated_modules = <<>>
        /\ pc = "exited" => exit_code = 0

(***************************************************************************)
(* Properties of the runner on declarations that lack an attribute         *)
(***************************************************************************)

\* The runner has acted on a task the planner can emit (its release
\* version is a semantic version and the fetched text is not empty), the
\* version was not yet recorded and the download did not fail.
EmittableTaskRan ==
    /\ RunnerActed
    /\ semver(RunnerTask.release.version).ok
    /\ RunnerTask.mod_file.content # <<>>
    /\ ~RunnerRefused

\* C25: for every task the planner can emit, whether or not the fetched
\* declaration has a version or a compatibility_level attribute,
\* generate_files writes the files and raises no error, provided the
\* release version is not yet recorded and the download succeeds.
C25_AbsentAttributeNoCrash ==
    EmittableTaskRan => (RunnerWrote /\ error = NoError)

(***************************************************************************)
(* Properties of the recorded patch                                        *)
(***************************************************************************)

\* The runner wrote the files of the task and recorded a patch: a file
\* under patches/ and an entry of patches in source.json.
PatchRecorded ==
    /\ RunnerWrote
    /\ files[RunnerKey].patches # {}
    /\ files[RunnerKey].source_json.patches # {}

\* C26: whenever generate_files records a patch artifact, the corrected
\* declaration text differs from the fetched original and the patch text
\* is a non-empty unified diff.
C26_PatchIsNotEmpty ==
    PatchRecorded =>
        /\ WrittenText # RunnerTask.mod_file.content
        /\ \A p \in files[RunnerKey].patches : ~p.text.empty

(***************************************************************************)
(* Properties of the plan of one run                                       *)
(***************************************************************************)

\* C27: for any command line, the plan built in one run holds at most one
\* task per module, so no planned version is materialized twice and the
\* runner never meets a version that an earlier task of the same run
\* recorded.
C27_OneTaskPerModule ==
    PlannerEnded =>
        \A i, j \in 1..Len(updated_modules) :
            updated_modules[i].module.name = updated_modules[j].module.name
                => i = j

(***************************************************************************)
(* Properties of the memoized lookups of GithubWrapper                     *)
(***************************************************************************)

\* No call of the hosting API occurs twice in the sequence of calls.
NoRepeatedCall(calls) ==
    \A i, j \in 1..Len(calls) : calls[i] = calls[j] => i = j

\* Every entry of the cache before is an entry of the cache after, with
\* the same outcome.
Remembered(before, after) ==
    \A k \in DOMAIN before : k \in DOMAIN after /\ after[k] = before[k]

\* The task was built from the outcomes the two caches hold for its
\* source coordinate and tag.
BuiltFromCaches(task, releases, contents) ==
    LET key == << task.release.org_and_repo, task.release.tag_name >>
    IN  /\ task.release.org_and_repo \in DOMAIN releases
        /\ releases[task.release.org_and_repo]
              = [ found |-> TRUE, info |-> task.release ]
        /\ key \in DOMAIN contents
        /\ contents[key].found
        /\ task.mod_file = parse_MODULE_file_content(contents[key].text)

\* C29: within one run, the release list of a source coordinate and the
\* declaration file of a coordinate and tag are each fetched from the
\* hosting API at most once; an outcome once remembered, a failure
\* remembered as absent included, stays the outcome of every later lookup,
\* and every task is built from the remembered outcomes.
C29_FetchedAtMostOnce ==
    [][ /\ NoRepeatedCall(api_calls')
        /\ Remembered(release_cache, release_cache')
        /\ Remembered(module_file_cache, module_file_cache')
        /\ \A i \in 1..Len(updated_modules') :
              BuiltFromCaches(updated_modules'[i], release_cache',
                              module_file_cache') ]_vars

\* The same module was planned twice; the first lookup of its releases
\* failed and was remembered as absent, and the second lookup made no call.
C29_Witness ==
    /\ pc = "plan"
    /\ plan_idx = 3
    /\ modules[1].org_and_repo = modules[2].org_and_repo
    /\ upstream[modules[1].org_and_repo].releases = "GithubException"
    /\ release_cache[modules[1].org_and_repo] = NoRelease
    /\ Len(api_calls) = 1

(***************************************************************************)
(* Properties of the order of planning and materializing                   *)
(***************************************************************************)

\* The tasks follow one another as their modules do in the list that was
\* planned.
InPlannerOrder(tasks, planned) ==
    \E f \in [ 1..Len(tasks) -> 1..Len(planned) ] :
        /\ \A i \in 1..Len(tasks) : planned[f[i]] = tasks[i].module
        /\ \A i, j \in 1..Len(tasks) : i < j => f[i] < f[j]

\* The step changes the registry tree.
Writes == disk' # disk \/ files' # files

\* The registry tree changes for the module of the task only, and its
\* files for the version of the task only.
WritesOnlyFor(task) ==
    /\ \A m \in ModuleNames : m # task.module.name => disk'[m] = disk[m]
    /\ \A k \in DOMAIN files : k \in DOMAIN files' /\ files'[k] = files[k]
    /\ DOMAIN files' \subseteq
          DOMAIN files \cup { << task.module.name, task.release.version >> }

\* C28: within one run nothing is written before the planning of all
\* modules has finished; the tasks stand in the order in which their
\* modules were planned and are materialized one at a time in that order,
\* each step writing for the task at hand only and then either moving to
\* the next task or ending the run; once the run has ended nothing is
\* written.
C28_PlanThenMaterializeInOrder ==
    [][ /\ InPlannerOrder(updated_modules', modules')
        /\ Writes =>
              /\ pc = "generate"
              /\ plan_idx > Len(modules)
              /\ updated_modules' = updated_modules
              /\ task_idx <= Len(updated_modules)
              /\ WritesOnlyFor(updated_modules[task_idx])
              /\ \/ task_idx' = task_idx + 1 /\ pc' = "generate"
                 \/ task_idx' = task_idx /\ pc' = "exited"
        /\ pc = "exited" => ~Writes ]_vars

\* Two tasks were planned; the first was materialized and the second
\* ended the run with a fatal error, leaving no file of its version.
C28_Witness ==
    /\ Len(updated_modules) = 2
    /\ updated_modules[1].module.name # updated_modules[2].module.name
    /\ task_idx = 2
    /\ pc = "exited"
    /\ error.in = "generate_files"
    /\ << updated_modules[1].module.name,
          updated_modules[1].release.version >> \in DOMAIN files
    /\ << updated_modules[2].module.name,
          updated_modules[2].release.version >> \notin DOMAIN files

(***************************************************************************)
(* Properties of what materializing a task leaves alone                    *)
(***************************************************************************)

\* How often the version string x stands in the list l.
Occurrences(l, x) == Cardinality({ i \in 1..Len(l) : l[i] = x })

\* The list after holds the version strings of the list before, each as
\* often as before, and once more the version v.
AppendsOnly(before, after, v) ==
    /\ Len(after) = Len(before) + 1
    /\ \A i \in 1..Len(before) :
          Occurrences(after, before[i])
              = Occurrences(before, before[i]) + (IF before[i] = v THEN 1 ELSE 0)
    /\ Occurrences(after, v) = Occurrences(before, v) + 1

\* C30: materializing a task for module M and version V only appends:
\* metadata.json of M lists the version strings recorded before plus V,
\* its other fields are unchanged, and no metadata.json and no file of
\* another module or of another version directory of M is created,
\* changed or removed.
C30_MaterializingOnlyAppends ==
    [][ Writes =>
          /\ pc = "generate"
          /\ task_idx <= Len(updated_modules)
          /\ LET mod == updated_modules[task_idx].module.name
                 ver == updated_modules[task_idx].release.version
             IN  /\ AppendsOnly(disk[mod].versions, disk'[mod].versions, ver)
                 /\ [ disk'[mod] EXCEPT !.versions = disk[mod].versions ] = disk[mod]
                 /\ \A m \in ModuleNames \ { mod } : disk'[m] = disk[m]
                 /\ \A k \in DOMAIN files \ { << mod, ver >> } :
                       k \in DOMAIN files' /\ files'[k] = files[k]
                 /\ \A k \in DOMAIN files' \ { << mod, ver >> } :
                       k \in DOMAIN files ]_vars

\* The first task was materialized for a module that had a version
\* recorded before, next to another module that has files of its own.
C30_Witness ==
    /\ task_idx = 2
    /\ LET mod == updated_modules[1].module.name
           ver == updated_modules[1].release.version
       IN  /\ << mod, ver >> \in DOMAIN files
           /\ \E k \in DOMAIN files : k[1] = mod /\ k[2] # ver
           /\ \E k \in DOMAIN files : k[1] # mod
           /\ Len(disk[mod].versions) >= 2

====
